---- MODULE Spec2Model ----
(***************************************************************************)
(* monzter: an HTML link crawler with a maximum depth and a rate limit.    *)
(*                                                                         *)
(* The repository holds two crawl engines, both modelled here:             *)
(*   impl = "conc"  crawler.go: one goroutine per link, results merged by  *)
(*                  funnel and collectResults, visited set LinkSet         *)
(*                  (sync.Map), tree LinkTree (map[string]LinkTree);       *)
(*   impl = "seq"   the recursive single-goroutine crawler (Crawler.crawl  *)
(*                  with SchemelessURLSet and URLTree, map[*url.URL]).     *)
(*                                                                         *)
(* Strings are sequences of tokens: "http://h/foo/" is                     *)
(* <<"http", ":", "//", "h", "/", "foo", "/">>.  url.Parse, URL.String and *)
(* URL.ResolveReference work on these token strings.                       *)
(***************************************************************************)
EXTENDS Integers, Sequences, FiniteSets, TLC

VARIABLES impl, site, maxDepth, visited, tasks, stack, run, hist, out, fun

vars == <<impl, site, maxDepth, visited, tasks, stack, run, hist, out, fun>>

(***************************************************************************)
(* Bounds of the model.                                                    *)
(***************************************************************************)
\* largest configured -depth value tried (the smallest is -1)
MaxDepthCfg == 4
\* how many limiter waits / fetches / parses may fail in one run
MaxFailures == 1
\* funnel on its own: the most input channels, the most values sent on one
MaxInputs == 2
MaxVals == 2

(***************************************************************************)
(* net/url on token strings.                                               *)
(***************************************************************************)
RECURSIVE SplitAcc(_, _, _)
SplitAcc(toks, cur, acc) ==
    IF toks = <<>> THEN Append(acc, cur)
    ELSE IF Head(toks) = "/" THEN SplitAcc(Tail(toks), "", Append(acc, cur))
    ELSE SplitAcc(Tail(toks), Head(toks), acc)

\* strings.Split(path, "/"): "/foo/" gives <<"", "foo", "">>
Split(toks) == SplitAcc(toks, "", <<>>)

RECURSIVE Join(_)
\* strings.Join(elems, "/"); the empty element contributes no token
Join(elems) ==
    IF elems = <<>> THEN <<>>
    ELSE LET h == IF Head(elems) = "" THEN <<>> ELSE <<Head(elems)>>
         IN  IF Len(elems) = 1 THEN h ELSE h \o <<"/">> \o Join(Tail(elems))

\* a token url.Parse rejects (an invalid percent escape)
BadEscape == "%zz"

\* url.Parse fails on this string
ParseFails(s) == \E i \in 1..Len(s) : s[i] = BadEscape

\* url.Parse: scheme ":" "//" host path
Parse(s) ==
    LET hasScheme == Len(s) >= 2 /\ s[2] = ":"
        rest      == IF hasScheme THEN SubSeq(s, 3, Len(s)) ELSE s
        hasAuth   == Len(rest) >= 1 /\ rest[1] = "//"
        hasHost   == hasAuth /\ Len(rest) >= 2 /\ rest[2] # "/"
        path      == IF hasHost THEN SubSeq(rest, 3, Len(rest))
                     ELSE IF hasAuth THEN SubSeq(rest, 2, Len(rest))
                     ELSE rest
    IN  [Scheme |-> IF hasScheme THEN s[1] ELSE "",
         Host   |-> IF hasHost THEN rest[2] ELSE "",
         Path   |-> path]

\* URL.String
String(u) ==
    LET sch  == IF u.Scheme # "" THEN <<u.Scheme, ":">> ELSE <<>>
        auth == IF (u.Scheme # "" \/ u.Host # "") /\ (u.Host # "" \/ u.Path # <<>>)
                THEN <<"//">> \o (IF u.Host # "" THEN <<u.Host>> ELSE <<>>)
                ELSE <<>>
        sep  == IF u.Path # <<>> /\ u.Path[1] # "/" /\ u.Host # ""
                THEN <<"/">> ELSE <<>>
    IN  sch \o auth \o sep \o u.Path

\* URL.Hostname (ports are not modelled)
Hostname(u) == u.Host

RECURSIVE DotSegments(_, _)
\* the element loop of resolvePath: "." is skipped, ".." pops
DotSegments(elems, st) ==
    IF elems = <<>> THEN st
    ELSE LET e == Head(elems)
         IN  IF e = "." THEN DotSegments(Tail(elems), st)
             ELSE IF e = ".."
                  THEN DotSegments(Tail(elems),
                                   IF st = <<>> THEN st ELSE SubSeq(st, 1, Len(st) - 1))
             ELSE DotSegments(Tail(elems), Append(st, e))

\* index of the last "/" token of a path, 0 when there is none
LastSlash(p) ==
    LET S == {i \in 1..Len(p) : p[i] = "/"}
    IN  IF S = {} THEN 0 ELSE CHOOSE i \in S : \A j \in S : j <= i

\* net/url resolvePath(base, ref)
resolvePath(base, ref) ==
    LET full  == IF ref = <<>> THEN base
                 ELSE IF ref[1] # "/" THEN SubSeq(base, 1, LastSlash(base)) \o ref
                 ELSE ref
        elems == Split(full)
        st    == DotSegments(elems, <<>>)
        body  == IF st # <<>> /\ st[1] = "" THEN Tail(st) ELSE st
        last  == elems[Len(elems)]
        tail  == IF last = "." \/ last = ".." THEN <<"/">> ELSE <<>>
    IN  IF full = <<>> THEN <<>> ELSE <<"/">> \o Join(body) \o tail

\* URL.ResolveReference
ResolveReference(base, ref) ==
    IF ref.Scheme # "" \/ ref.Host # ""
    THEN [Scheme |-> IF ref.Scheme = "" THEN base.Scheme ELSE ref.Scheme,
          Host   |-> ref.Host,
          Path   |-> resolvePath(ref.Path, <<>>)]
    ELSE [Scheme |-> base.Scheme,
          Host   |-> base.Host,
          Path   |-> resolvePath(base.Path, ref.Path)]

\* parseToAbsURL(href, base): the caller has checked ~ParseFails(href)
parseToAbsURL(href, base) ==
    LET parsed == Parse(href)
        withPath == IF parsed.Path = <<>> THEN [parsed EXCEPT !.Path = <<"/">>] ELSE parsed
    IN  ResolveReference(base, withPath)

\* withoutScheme (recursive crawler): the string of a clone with Scheme = ""
withoutScheme(u) ==
    LET clone == Parse(String(u))
    IN  String([clone EXCEPT !.Scheme = ""])

\* mutant: the scheme is not erased
MutUrlKeepsScheme(u) == String(Parse(String(u)))

\* mutant: a "/" at the end of the key is dropped as well
MutUrlDropsTrailingSlash(u) ==
    LET clone == Parse(String(u))
        key   == String([clone EXCEPT !.Scheme = ""])
    IN  IF Len(key) > 1 /\ key[Len(key)] = "/" THEN SubSeq(key, 1, Len(key) - 1) ELSE key

\* urlWithoutScheme (crawler.go)
urlWithoutScheme(u) ==
    LET clone == Parse(String(u))
    IN  String([clone EXCEPT !.Scheme = ""])

(***************************************************************************)
(* The crawled sites.  The server of a site maps the path of a request to  *)
(* the hrefs of the page's <a> elements, in document order; any other path *)
(* is answered 404 with a body without links.                              *)
(***************************************************************************)
\* "/name"
P(name) == <<"/", name>>

\* "scheme://host/name"
Abs(scheme, host, name) == <<scheme, ":", "//", host, "/", name>>

\* c.root: the entrypoint given to NewCrawler
Root == Parse(Abs("http", "h", "entry"))

Sites ==
    [ \* two paths to /b, and a cycle back to the entrypoint
      diamond   |-> (P("entry") :> <<P("a"), P("b")>>) @@ (P("a") :> <<P("b")>>)
                    @@ (P("b") :> <<P("c")>>) @@ (P("c") :> <<P("entry")>>),
      \* A -> B -> C -> A
      cycle     |-> (P("entry") :> <<P("a")>>) @@ (P("a") :> <<P("b")>>)
                    @@ (P("b") :> <<P("entry")>>),
      \* the same target under both schemes, written absolute and relative
      schemes   |-> (P("entry") :> <<Abs("http", "g", "x"), Abs("https", "g", "x"),
                                     P("a"), Abs("https", "h", "a")>>)
                    @@ (P("a") :> <<>>),
      \* the equivalent relative and absolute link on one page
      relabs    |-> (P("entry") :> <<P("a"), Abs("http", "h", "a")>>)
                    @@ (P("a") :> <<P("b")>>),
      \* the two schemes of one target on different pages
      crosspage |-> (P("entry") :> <<P("a"), P("b")>>) @@ (P("a") :> <<Abs("http", "g", "x")>>)
                    @@ (P("b") :> <<Abs("https", "g", "x")>>),
      \* hrefs relative to the directory of the page they are on
      relative  |-> (P("entry") :> <<<<"/", "foo", "/", "bar">>>>)
                    @@ (<<"/", "foo", "/", "bar">> :> <<<<"baz">>>>)
                    @@ (<<"/", "foo", "/", "baz">> :> <<<<"..", "/", "..", "/", "baz">>>>)
                    @@ (P("baz") :> <<P("foo"), <<"foo", "/", "bar">>>>),
      \* a link to a path that is not routed
      notfound  |-> (P("entry") :> <<P("missing"), P("a")>>) @@ (P("a") :> <<>>),
      \* an href url.Parse rejects, between two it accepts
      malformed |-> (P("entry") :> <<P("a"), <<"/", BadEscape>>, P("b")>>)
                    @@ (P("a") :> <<>>) @@ (P("b") :> <<<<"/", BadEscape>>>>),
      \* a local link and links to other hosts: "f", "http://g",
      \* "https://k/maps", "//w"
      external  |-> (P("entry") :> <<<<"f">>, <<"http", ":", "//", "g">>,
                                     Abs("https", "k", "maps"), <<"//", "w">>>>)
                    @@ (P("f") :> <<>>),
      \* /bla under both schemes, and /bla/
      slash     |-> (P("entry") :> <<Abs("https", "h", "bla"), P("bla"), <<"/", "bla", "/">>>>)
                    @@ (P("bla") :> <<>>) @@ (<<"/", "bla", "/">> :> <<>>) ]

SiteNames == DOMAIN Sites

\* the values of -depth tried
DepthCfgs == (0 - 1)..MaxDepthCfg

\* the hrefs in the body a server sends with its 404 answer: none in the
\* "404 page not found" of net/http, a link to /help on the site notfound
ErrorPage(s) == IF s = "notfound" THEN <<P("help")>> ELSE <<>>

\* the answer to a request of u: 200 and the page for a routed path, 404 and
\* the error page for any other
Response(s, u) ==
    IF u.Path \in DOMAIN Sites[s] THEN [status |-> 200, body |-> Sites[s][u.Path]]
    ELSE [status |-> 404, body |-> ErrorPage(s)]

\* the body served for a request of u
Page(s, u) == Response(s, u).body

(***************************************************************************)
(* Values: errors, trees, results.                                         *)
(***************************************************************************)
NoErr == [kind |-> "nil", url |-> <<>>]

Err(kind, url) == [kind |-> kind, url |-> url]

\* a nil LinkTree / URLTree
NilTree == [nil |-> TRUE, m |-> <<>>]

\* LinkTree{} / URLTree{}
EmptyTree == [nil |-> FALSE, m |-> <<>>]

\* tree[k] = sub
TreePut(tree, k, sub) ==
    [nil |-> FALSE,
     m   |-> [x \in (DOMAIN tree.m) \cup {k} |-> IF x = k THEN sub ELSE tree.m[x]]]

(***************************************************************************)
(* The visited sets.                                                       *)
(***************************************************************************)
\* LinkSet.EnsureContains: sync.Map.LoadOrStore, one atomic step
\* mutant: the key is looked up and never stored
MutEnsureContainsNoStore(s, url) == [existed |-> url \in s, set |-> s]

LinkSetEnsureContains(s, url) == [existed |-> url \in s, set |-> s \cup {url}]

\* mutant: the key is never stored
MutSchemelessNoStore(s, u) == [existed |-> withoutScheme(u) \in s, set |-> s]

\* SchemelessURLSet.EnsureContains
SchemelessEnsureContains(s, u) ==
    LET key == withoutScheme(u)
    IN  IF key \in s THEN [existed |-> TRUE, set |-> s]
        ELSE [existed |-> FALSE, set |-> s \cup {key}]

(***************************************************************************)
(* Requests: what client.Do answers when the transport does not fail.      *)
(***************************************************************************)
\* mutant: an answer with a status outside 200..299 is an error
MutFetchChecksStatus(s, u) ==
    LET resp == Response(s, u)
    IN  IF resp.status \in 200..299 THEN [err |-> NoErr, body |-> resp.body]
        ELSE [err |-> Err("status", String(u)), body |-> <<>>]

\* Crawler.fetchPage (crawler.go): resp.Body, whatever resp.StatusCode is
fetchPage(s, u) == [err |-> NoErr, body |-> Response(s, u).body]

\* Crawler.fetch (recursive crawler): resp.Body, whatever resp.StatusCode is
fetch(s, u) == [err |-> NoErr, body |-> Response(s, u).body]

(***************************************************************************)
(* Link extraction.                                                        *)
(***************************************************************************)
RECURSIVE FindLinksWalk(_, _, _)
\* the walkLinks callback of findLinksInPage over the anchors of a page
FindLinksWalk(page, seenOnPage, links) ==
    IF page = <<>> THEN links
    ELSE LET val == Head(page)
         IN  IF ParseFails(val) THEN FindLinksWalk(Tail(page), seenOnPage, links)
             ELSE LET r == LinkSetEnsureContains(seenOnPage, urlWithoutScheme(Parse(val)))
                  IN  FindLinksWalk(Tail(page), r.set,
                                    IF r.existed THEN links ELSE Append(links, val))

\* mutant: a malformed href ends the extraction without any link
MutFindLinksGivesUp(page) ==
    IF \E i \in 1..Len(page) : ParseFails(page[i]) THEN <<>>
    ELSE FindLinksWalk(page, {}, <<>>)

\* Crawler.findLinksInPage (crawler.go): the hrefs as written, deduplicated
\* by the scheme-less form of the unresolved href
findLinksInPage(page) == FindLinksWalk(page, {}, <<>>)

RECURSIVE UniqueLinksWalk(_, _, _, _)
UniqueLinksWalk(page, pageURL, seenOnPage, links) ==
    IF page = <<>> THEN links
    ELSE LET val == Head(page)
         IN  IF ParseFails(val) THEN UniqueLinksWalk(Tail(page), pageURL, seenOnPage, links)
             ELSE LET href == parseToAbsURL(val, pageURL)
                      r    == SchemelessEnsureContains(seenOnPage, href)
                  IN  UniqueLinksWalk(Tail(page), pageURL, r.set,
                                      IF r.existed THEN links ELSE Append(links, href))

\* Crawler.uniqueLinksInPage (recursive crawler): absolute URLs, deduplicated
\* by the scheme-less form of the resolved URL
uniqueLinksInPage(page, pageURL) == UniqueLinksWalk(page, pageURL, {}, <<>>)

\* Crawler.parseToAbsURL of crawler.go resolves against c.root
CrawlerParseToAbsURL(link) == parseToAbsURL(link, Root)

(***************************************************************************)
(* State.                                                                  *)
(*   visited  c.visited: the set of scheme-less URL strings                *)
(*   tasks    crawler.go: one entry per crawl call, named by the positions *)
(*            of the links that lead to it (<<>> is the call made by Run)  *)
(*   stack    recursive crawler: the frames of the nested crawl calls      *)
(*   run      what Run returned                                            *)
(*   hist     what happened: requests issued, visited-set calls, limiter   *)
(*            grants and the calls they were given to, failures raised     *)
(*   out      what main printed of the tree: one record per line           *)
(*   fun      a call of funnel on its own, with producers that send any    *)
(*            number of values and a consumer that ranges over the output  *)
(***************************************************************************)
\* a crawl call of crawler.go with its result channel ch, the funnel goroutine
\* that forwards ch (fwd) and the funnel's combined channel of its own children
NewTask(u) ==
    [pc |-> "admit", u |-> u, links |-> <<>>, tree |-> NilTree,
     res |-> [link |-> <<>>, tree |-> NilTree, err |-> NoErr],
     fwd |-> "recv", comb |-> "none"]

\* a crawl call of the recursive crawler
NewFrame(id, pageURL) ==
    [id |-> id, pageURL |-> pageURL, pc |-> "wait", hrefs |-> <<>>, i |-> 1,
     tree |-> NilTree, err |-> NoErr]

\* the values producer i sends on its channel, in order
Values(i, len) == [k \in 1..len |-> <<i, k>>]

\* funnel(channels...) has returned: one forwarder per channel in its range
\* loop, wg.Add(len(channels)), combined open; lens[i] is the number of values
\* the producer of channel i is going to send before it closes the channel
FunnelCall(lens) ==
    [lens     |-> lens,
     todo     |-> [i \in DOMAIN lens |-> Values(i, lens[i])],
     closed   |-> [i \in DOMAIN lens |-> FALSE],
     fwd      |-> [i \in DOMAIN lens |-> "recv"],
     res      |-> [i \in DOMAIN lens |-> <<>>],
     wg       |-> Len(lens),
     closes   |-> 0,
     late     |-> FALSE,
     consumer |-> "ranging",
     rcvd     |-> [i \in DOMAIN lens |-> <<>>]]

Init ==
    /\ impl \in {"conc", "seq"}
    /\ site \in SiteNames
    /\ maxDepth \in DepthCfgs
    /\ visited = {}
    /\ tasks = <<>>
    /\ stack = <<>>
    /\ run = [state |-> "new", tree |-> NilTree, err |-> NoErr]
    /\ hist = [fetched |-> {}, ec |-> {}, granted |-> 0, waited |-> {}, failed |-> {}]
    /\ out = [printed |-> FALSE, lines |-> <<>>]
    /\ fun = FunnelCall(<<>>)

Children(t) == {t \o <<i>> : i \in 1..Len(tasks[t].links)}

Parent(t) == SubSeq(t, 1, Len(t) - 1)

MayFail == Cardinality(hist.failed) < MaxFailures

\* what a returning crawl call leaves: Run's result for the root call, the result
\* the goroutine is about to send on ch for any other
Returned(t, task, tree, err) ==
    [task EXCEPT !.pc = IF t = <<>> THEN "done" ELSE "ret",
                 !.res = [link |-> String(task.u), tree |-> tree, err |-> err]]

RunReturns(t, tree, err) ==
    IF t = <<>> THEN run' = [state |-> "done", tree |-> tree, err |-> err]
    ELSE UNCHANGED run

(***************************************************************************)
(* crawler.go: the concurrent crawler.                                     *)
(***************************************************************************)
\* Crawler.Run
Run ==
    /\ impl = "conc"
    /\ run.state = "new"
    /\ LET link == String(Root)
       IN  IF ParseFails(link)
           THEN /\ run' = [state |-> "done", tree |-> NilTree, err |-> Err("resolve", link)]
                /\ UNCHANGED tasks
           ELSE /\ run' = [run EXCEPT !.state = "running"]
                /\ tasks' = (<<>> :> NewTask(CrawlerParseToAbsURL(link)))
    /\ UNCHANGED <<fun, impl, site, maxDepth, out, visited, stack, hist>>

\* mutant: the result of EnsureContains is ignored
MutCrawlStopsIgnoreVisited(existed, depth, u) ==
    depth = maxDepth \/ Hostname(u) # Hostname(Root)

\* mutant: no depth check
MutCrawlStopsNoDepth(existed, depth, u) ==
    existed \/ Hostname(u) # Hostname(Root)

\* mutant: no host check
MutCrawlStopsNoHost(existed, depth, u) ==
    existed \/ depth = maxDepth

\* Crawler.crawl, lines 59-67: TRUE when crawl returns nil, nil without fetching
CrawlStops(existed, depth, u) ==
    existed \/ depth = maxDepth \/ Hostname(u) # Hostname(Root)

\* Crawler.crawl, lines 58-67: admission, then the depth and host check
Admit(t) ==
    /\ tasks[t].pc = "admit"
    /\ LET u == tasks[t].u
           r == LinkSetEnsureContains(visited, urlWithoutScheme(u))
           stop == CrawlStops(r.existed, Len(t), u)
       IN  /\ visited' = r.set
           /\ hist' = [hist EXCEPT !.ec = @ \cup {[caller |-> t, key |-> urlWithoutScheme(u),
                                                   existed |-> r.existed]}]
           /\ tasks' = [tasks EXCEPT ![t] = IF stop THEN Returned(t, @, NilTree, NoErr)
                                            ELSE [@ EXCEPT !.pc = "wait"]]
           /\ IF stop THEN RunReturns(t, NilTree, NoErr) ELSE UNCHANGED run
    /\ UNCHANGED <<fun, impl, site, maxDepth, out, stack>>

\* mutant: the error of c.limiter.Wait is dropped and the page is fetched
MutLimiterWaitIgnoresError(t) ==
    /\ tasks[t].pc = "wait"
    /\ \/ /\ hist' = [hist EXCEPT !.granted = @ + 1, !.waited = @ \cup {t}]
       \/ /\ MayFail
          /\ hist' = [hist EXCEPT !.failed = @ \cup {Err("wait", String(tasks[t].u))}]
    /\ tasks' = [tasks EXCEPT ![t].pc = "fetch"]
    /\ UNCHANGED <<fun, impl, site, maxDepth, out, visited, stack, run>>

\* Crawler.crawl, lines 69-73: c.limiter.Wait
LimiterWait(t) ==
    /\ tasks[t].pc = "wait"
    /\ \/ /\ tasks' = [tasks EXCEPT ![t].pc = "fetch"]
          /\ hist' = [hist EXCEPT !.granted = @ + 1, !.waited = @ \cup {t}]
          /\ UNCHANGED run
       \/ /\ MayFail
          /\ LET e == Err("wait", String(tasks[t].u))
             IN  /\ tasks' = [tasks EXCEPT ![t] = Returned(t, @, NilTree, e)]
                 /\ hist' = [hist EXCEPT !.failed = @ \cup {e}]
                 /\ RunReturns(t, NilTree, e)
    /\ UNCHANGED <<fun, impl, site, maxDepth, out, visited, stack>>

\* the tasks after the fan-out loop of lines 86-106 and the funnel call of
\* collectResults: one goroutine per link, each with its channel and forwarder
FanOut(t, links) ==
    LET kids == {t \o <<i>> : i \in 1..Len(links)}
    IN  [x \in (DOMAIN tasks) \cup kids |->
            IF x \in kids THEN NewTask(CrawlerParseToAbsURL(links[x[Len(x)]]))
            ELSE IF x = t THEN [tasks[t] EXCEPT !.pc = "collect", !.links = links,
                                                !.tree = EmptyTree, !.comb = "open"]
            ELSE tasks[x]]

\* Crawler.crawl, lines 75-108: fetchPage, findLinksInPage, the fan-out loop
\* and the start of collectResults
Fetch(t) ==
    /\ tasks[t].pc = "fetch"
    /\ LET u == tasks[t].u
           req == [task |-> t, url |-> String(u)]
           page == fetchPage(site, u)
       IN  \/ /\ hist' = [hist EXCEPT !.fetched = @ \cup {req}]
              /\ IF page.err = NoErr
                 THEN /\ tasks' = FanOut(t, findLinksInPage(page.body))
                      /\ UNCHANGED run
                 ELSE /\ tasks' = [tasks EXCEPT ![t] = Returned(t, @, NilTree, page.err)]
                      /\ RunReturns(t, NilTree, page.err)
           \/ /\ MayFail
              /\ \E kind \in {"fetch", "parse"} :
                    LET e == Err(kind, String(u))
                    IN  /\ hist' = [hist EXCEPT !.fetched = @ \cup {req},
                                                !.failed = @ \cup {e}]
                        /\ tasks' = [tasks EXCEPT ![t] = Returned(t, @, NilTree, e)]
                        /\ RunReturns(t, NilTree, e)
    /\ UNCHANGED <<fun, impl, site, maxDepth, out, visited, stack>>

\* the goroutine of lines 97-105: ch <- result, received by the funnel
\* goroutine of this channel, then the deferred close(ch)
Send(t) ==
    /\ t # <<>>
    /\ tasks[t].pc = "ret"
    /\ tasks[t].fwd = "recv"
    /\ tasks' = [tasks EXCEPT ![t].pc = "done", ![t].fwd = "send"]
    /\ UNCHANGED <<fun, impl, site, maxDepth, out, visited, stack, run, hist>>

\* mutant: an error result is stored like a tree and the loop goes on
MutCollectKeepsGoing(task, res) ==
    [tree |-> TreePut(task.tree, res.link, res.tree), err |-> NoErr, returns |-> FALSE]

\* the loop body of collectResults for one received result
Collect(task, res) ==
    IF res.err # NoErr THEN [tree |-> NilTree, err |-> res.err, returns |-> TRUE]
    ELSE [tree |-> TreePut(task.tree, res.link, res.tree), err |-> NoErr, returns |-> FALSE]

\* mutant: the forwarder passes the result on and never calls wg.Done
MutForwardNoWgDone(t) ==
    /\ t # <<>>
    /\ tasks[t].fwd = "send"
    /\ tasks[Parent(t)].pc = "collect"
    /\ LET p == Parent(t)
           c == Collect(tasks[p], tasks[t].res)
       IN  /\ tasks' = [tasks EXCEPT
                          ![t].fwd = "stuck",
                          ![p] = IF c.returns THEN Returned(p, @, c.tree, c.err)
                                 ELSE [@ EXCEPT !.tree = c.tree]]
           /\ IF c.returns THEN RunReturns(p, c.tree, c.err) ELSE UNCHANGED run
    /\ UNCHANGED <<fun, impl, site, maxDepth, out, visited, stack, hist>>

\* funnel: combined <- res, received by the range loop of collectResults; the
\* forwarder then finds ch closed and calls wg.Done
Forward(t) ==
    /\ t # <<>>
    /\ tasks[t].fwd = "send"
    /\ tasks[Parent(t)].pc = "collect"
    /\ LET p == Parent(t)
           c == Collect(tasks[p], tasks[t].res)
       IN  /\ tasks' = [tasks EXCEPT
                          ![t].fwd = "done",
                          ![p] = IF c.returns THEN Returned(p, @, c.tree, c.err)
                                 ELSE [@ EXCEPT !.tree = c.tree]]
           /\ IF c.returns THEN RunReturns(p, c.tree, c.err) ELSE UNCHANGED run
    /\ UNCHANGED <<fun, impl, site, maxDepth, out, visited, stack, hist>>

\* funnel, lines 26-29: wg.Wait returns, close(combined)
CloseCombined(p) ==
    /\ tasks[p].comb = "open"
    /\ \A k \in Children(p) : tasks[k].fwd = "done"
    /\ tasks' = [tasks EXCEPT ![p].comb = "closed"]
    /\ UNCHANGED <<fun, impl, site, maxDepth, out, visited, stack, run, hist>>

\* collectResults: the range loop ends on the closed channel, return tree, nil
CollectDone(p) ==
    /\ tasks[p].pc = "collect"
    /\ tasks[p].comb = "closed"
    /\ tasks' = [tasks EXCEPT ![p] = Returned(p, @, @.tree, NoErr)]
    /\ RunReturns(p, tasks[p].tree, NoErr)
    /\ UNCHANGED <<fun, impl, site, maxDepth, out, visited, stack, hist>>

(***************************************************************************)
(* The recursive crawler (Crawler.Run and Crawler.crawl over URLTree).     *)
(* A URLTree is keyed by *url.URL: a key is the pointer, named by the      *)
(* position of the href in the page's hrefs, together with its URL.        *)
(***************************************************************************)
Top == stack[Len(stack)]

\* the *url.URL key of hrefs[i]
Key(hrefs, i) == [p |-> i, u |-> hrefs[i]]

\* the stack with its top frame replaced
WithTop(f) == [stack EXCEPT ![Len(stack)] = f]

\* Crawler.Run: c.visited.EnsureContains(c.root), then c.crawl(c.root, 0)
SeqRun ==
    /\ impl = "seq"
    /\ run.state = "new"
    /\ LET r == SchemelessEnsureContains(visited, Root)
       IN  /\ visited' = r.set
           /\ hist' = [hist EXCEPT !.ec = @ \cup {[caller |-> <<>>, key |-> withoutScheme(Root),
                                                   existed |-> r.existed]}]
    /\ run' = [run EXCEPT !.state = "running"]
    /\ stack' = <<NewFrame(<<>>, Root)>>
    /\ UNCHANGED <<fun, impl, site, maxDepth, out, tasks>>

\* crawl: c.limiter.Wait
SeqWait ==
    /\ stack # <<>>
    /\ Top.pc = "wait"
    /\ \/ /\ stack' = WithTop([Top EXCEPT !.pc = "fetch"])
          /\ hist' = [hist EXCEPT !.granted = @ + 1, !.waited = @ \cup {Top.id}]
       \/ /\ MayFail
          /\ LET e == Err("wait", String(Top.pageURL))
             IN  /\ stack' = WithTop([Top EXCEPT !.pc = "failed", !.err = e])
                 /\ hist' = [hist EXCEPT !.failed = @ \cup {e}]
    /\ UNCHANGED <<fun, impl, site, maxDepth, out, visited, tasks, run>>

\* crawl: c.fetch and c.uniqueLinksInPage, tree := URLTree{}
SeqFetch ==
    /\ stack # <<>>
    /\ Top.pc = "fetch"
    /\ LET req == [task |-> Top.id, url |-> String(Top.pageURL)]
           page == fetch(site, Top.pageURL)
       IN  \/ /\ hist' = [hist EXCEPT !.fetched = @ \cup {req}]
              /\ IF page.err = NoErr
                 THEN stack' = WithTop([Top EXCEPT
                                          !.pc = "loop",
                                          !.hrefs = uniqueLinksInPage(page.body, Top.pageURL),
                                          !.i = 1,
                                          !.tree = EmptyTree])
                 ELSE stack' = WithTop([Top EXCEPT !.pc = "failed", !.err = page.err])
           \/ /\ MayFail
              /\ \E kind \in {"fetch", "parse"} :
                    LET e == Err(kind, String(Top.pageURL))
                    IN  /\ hist' = [hist EXCEPT !.fetched = @ \cup {req},
                                                !.failed = @ \cup {e}]
                        /\ stack' = WithTop([Top EXCEPT !.pc = "failed", !.err = e])
    /\ UNCHANGED <<fun, impl, site, maxDepth, out, visited, tasks, run>>

\* the depth and host check of the loop body: TRUE when the link is not crawled
SeqTooDeepOrOffHost(depth, href) ==
    depth + 1 >= maxDepth \/ Hostname(href) # Hostname(Root)

\* crawl: one pass of the loop over hrefs, up to the recursive call
SeqLoop ==
    /\ stack # <<>>
    /\ Top.pc = "loop"
    /\ Top.i <= Len(Top.hrefs)
    /\ LET href   == Top.hrefs[Top.i]
           listed == [Top EXCEPT !.tree = TreePut(@, Key(Top.hrefs, Top.i), NilTree)]
           r      == SchemelessEnsureContains(visited, href)
       IN  /\ visited' = r.set
           /\ hist' = [hist EXCEPT !.ec = @ \cup {[caller |-> Top.id \o <<Top.i>>,
                                                   key |-> withoutScheme(href),
                                                   existed |-> r.existed]}]
           /\ IF r.existed \/ SeqTooDeepOrOffHost(Len(Top.id), href)
              THEN stack' = WithTop([listed EXCEPT !.i = @ + 1])
              ELSE stack' = Append(WithTop(listed), NewFrame(Top.id \o <<Top.i>>, href))
    /\ UNCHANGED <<fun, impl, site, maxDepth, out, tasks, run>>

\* crawl returns to its caller: the tree after the loop, or nil and the error;
\* the caller stores the sub tree and goes on, or returns the error itself
SeqReturn ==
    /\ stack # <<>>
    /\ \/ Top.pc = "loop" /\ Top.i > Len(Top.hrefs)
       \/ Top.pc = "failed"
    /\ LET failed == Top.pc = "failed"
           tree   == IF failed THEN NilTree ELSE Top.tree
       IN  IF Len(stack) = 1
           THEN /\ run' = [state |-> "done", tree |-> tree, err |-> Top.err]
                /\ stack' = <<>>
           ELSE LET caller == stack[Len(stack) - 1]
                    back   == IF failed
                              THEN [caller EXCEPT !.pc = "failed", !.err = Top.err]
                              ELSE [caller EXCEPT
                                      !.tree = TreePut(@, Key(caller.hrefs, caller.i), tree),
                                      !.i = @ + 1]
                IN  /\ stack' = Append(SubSeq(stack, 1, Len(stack) - 2), back)
                    /\ UNCHANGED run
    /\ UNCHANGED <<fun, impl, site, maxDepth, out, visited, tasks, hist>>

(***************************************************************************)
(* Printing the tree: LinkTree.String and URLTree.String.  Go compares     *)
(* strings byte by byte, so the tokens are spelled out as bytes here.      *)
(***************************************************************************)
\* the bytes of every token
ByteTable ==
    ("http" :> <<104, 116, 116, 112>>) @@ ("https" :> <<104, 116, 116, 112, 115>>) @@ (":" :> <<58>>)
    @@ ("//" :> <<47, 47>>) @@ ("/" :> <<47>>) @@ ("h" :> <<104>>)
    @@ ("g" :> <<103>>) @@ ("k" :> <<107>>) @@ ("w" :> <<119>>)
    @@ ("f" :> <<102>>) @@ ("maps" :> <<109, 97, 112, 115>>) @@ ("entry" :> <<101, 110, 116, 114, 121>>)
    @@ ("a" :> <<97>>) @@ ("b" :> <<98>>) @@ ("c" :> <<99>>)
    @@ ("x" :> <<120>>) @@ ("foo" :> <<102, 111, 111>>) @@ ("bar" :> <<98, 97, 114>>)
    @@ ("baz" :> <<98, 97, 122>>) @@ (".." :> <<46, 46>>) @@ ("missing" :> <<109, 105, 115, 115, 105, 110, 103>>)
    @@ ("help" :> <<104, 101, 108, 112>>) @@ ("bla" :> <<98, 108, 97>>) @@ ("mail" :> <<109, 97, 105, 108>>)
    @@ ("%zz" :> <<37, 122, 122>>) @@ ("- " :> <<45, 32>>)

RECURSIVE StrBytes(_)
\* the bytes of a token string
StrBytes(str) == IF str = <<>> THEN <<>> ELSE ByteTable[Head(str)] \o StrBytes(Tail(str))

\* a < b on sequences of bytes
BytesLess(a, b) ==
    \E i \in 1..Len(b) :
        /\ \A j \in 1..(i - 1) : j <= Len(a) /\ a[j] = b[j]
        /\ i = Len(a) + 1 \/ (i <= Len(a) /\ a[i] < b[i])

\* the Go expression s < t on strings
StrLess(s, t) == BytesLess(StrBytes(s), StrBytes(t))

RECURSIVE SortStrings(_)
\* sort.Strings on the keys of a LinkTree
SortStrings(pages) ==
    IF pages = {} THEN <<>>
    ELSE LET first == CHOOSE x \in pages : \A y \in pages \ {x} : ~StrLess(y, x)
         IN  <<first>> \o SortStrings(pages \ {first})

\* IgnoringScheme.Less
IgnoringSchemeLess(k1, k2) == StrLess(withoutScheme(k1.u), withoutScheme(k2.u))

RECURSIVE SortIgnoringScheme(_)
\* sort.Sort(links) on the keys of a URLTree
SortIgnoringScheme(links) ==
    IF links = {} THEN <<>>
    ELSE LET first == CHOOSE x \in links : \A y \in links \ {x} : ~IgnoringSchemeLess(y, x)
         IN  <<first>> \o SortIgnoringScheme(links \ {first})

RECURSIVE LinkTreeLines(_, _, _, _)
RECURSIVE LinkTreeString(_, _)
\* the loop of LinkTree.string over the sorted pages, from position i on
LinkTreeLines(tree, pages, i, indent) ==
    IF i > Len(pages) THEN <<>>
    ELSE LET page == pages[i]
             sub  == tree.m[page]
             more == DOMAIN sub.m # {}
         IN  <<[indent |-> indent,
                text |-> <<"- ">> \o page \o (IF more THEN <<":">> ELSE <<>>)]>>
             \o (IF more THEN LinkTreeString(sub, indent + 1) ELSE <<>>)
             \o LinkTreeLines(tree, pages, i + 1, indent)

\* LinkTree.string(indent): the lines written, each with its indentation
LinkTreeString(tree, indent) == LinkTreeLines(tree, SortStrings(DOMAIN tree.m), 1, indent)

RECURSIVE URLTreeLines(_, _, _, _)
RECURSIVE URLTreeString(_, _)
\* the loop of URLTree.string over the sorted links, from position i on
URLTreeLines(tree, links, i, indent) ==
    IF i > Len(links) THEN <<>>
    ELSE LET link == links[i]
             sub  == tree.m[link]
         IN  <<[indent |-> indent, text |-> String(link.u)]>>
             \o (IF DOMAIN sub.m # {} THEN URLTreeString(sub, indent + 1) ELSE <<>>)
             \o URLTreeLines(tree, links, i + 1, indent)

\* URLTree.string(indent)
URLTreeString(tree, indent) == URLTreeLines(tree, SortIgnoringScheme(DOMAIN tree.m), 1, indent)

\* main: Run has returned; on an error nothing of the tree is printed,
\* otherwise fmt.Print(tree) writes tree.String()
PrintTree ==
    /\ run.state = "done"
    /\ ~out.printed
    /\ out' = [printed |-> TRUE,
               lines   |-> IF run.err # NoErr THEN <<>>
                           ELSE IF impl = "conc" THEN LinkTreeString(run.tree, 0)
                           ELSE URLTreeString(run.tree, 0)]
    /\ UNCHANGED <<fun, impl, site, maxDepth, visited, tasks, stack, run, hist>>

(***************************************************************************)
(* The specification.                                                      *)
(***************************************************************************)
Next ==
    \/ Run
    \/ \E t \in DOMAIN tasks : Admit(t)
    \/ \E t \in DOMAIN tasks : LimiterWait(t)
    \/ \E t \in DOMAIN tasks : Fetch(t)
    \/ \E t \in DOMAIN tasks : Send(t)
    \/ \E t \in DOMAIN tasks : Forward(t)
    \/ \E t \in DOMAIN tasks : CloseCombined(t)
    \/ \E t \in DOMAIN tasks : CollectDone(t)
    \/ SeqRun
    \/ SeqWait
    \/ SeqFetch
    \/ SeqLoop
    \/ SeqReturn
    \/ PrintTree

Spec == Init /\ [][Next]_vars

\* some goroutine can take a step: the guards of the actions of Next
Runnable ==
    \/ run.state = "new"
    \/ \E t \in DOMAIN tasks : tasks[t].pc \in {"admit", "wait", "fetch"}
    \/ \E t \in DOMAIN tasks : t # <<>> /\ tasks[t].pc = "ret" /\ tasks[t].fwd = "recv"
    \/ \E t \in DOMAIN tasks :
          t # <<>> /\ tasks[t].fwd = "send" /\ tasks[Parent(t)].pc = "collect"
    \/ \E p \in DOMAIN tasks :
          tasks[p].comb = "open" /\ \A k \in Children(p) : tasks[k].fwd = "done"
    \/ \E p \in DOMAIN tasks : tasks[p].pc = "collect" /\ tasks[p].comb = "closed"
    \/ stack # <<>>
    \/ run.state = "done" /\ ~out.printed

\* weak fairness of Next, WF_vars(Next), with the enabling condition of Next
\* written out: the Go scheduler runs a goroutine that can take a step, the
\* limiter grants or refuses every waiter, and client.Do answers or fails
\* within the client's timeout, so a step that stays possible is taken
FairSpec == Spec /\ ([]<>(~Runnable) \/ []<><<Next>>_vars)

(***************************************************************************)
(* funnel on its own.  Channels are unbuffered: a send and its receive are *)
(* one step.                                                               *)
(***************************************************************************)
crawlVars == <<impl, site, maxDepth, visited, tasks, stack, run, hist, out>>

\* the input channels of the call
Inputs == DOMAIN fun.lens

\* the producer of channel i sends its next value; the forwarder of the
\* channel receives it in "for res := range ch"
ProducerSend(i) ==
    /\ fun.todo[i] # <<>>
    /\ fun.fwd[i] = "recv"
    /\ fun' = [fun EXCEPT !.todo[i] = Tail(@), !.res[i] = Head(fun.todo[i]), !.fwd[i] = "send"]
    /\ UNCHANGED crawlVars

\* the producer of channel i has sent all its values and closes the channel
ProducerClose(i) ==
    /\ fun.todo[i] = <<>>
    /\ ~fun.closed[i]
    /\ fun' = [fun EXCEPT !.closed[i] = TRUE]
    /\ UNCHANGED crawlVars

\* funnel, line 20: combined <- res, received by the consumer; a send on the
\* closed channel is recorded in late
ForwarderSend(i) ==
    /\ fun.fwd[i] = "send"
    /\ fun.closes > 0 \/ fun.consumer = "ranging"
    /\ fun' = IF fun.closes > 0
              THEN [fun EXCEPT !.late = TRUE, !.fwd[i] = "done"]
              ELSE [fun EXCEPT !.rcvd[i] = Append(@, fun.res[i]), !.fwd[i] = "recv"]
    /\ UNCHANGED crawlVars

\* funnel, lines 19-22: the range loop ends on the closed channel, wg.Done()
ForwarderDone(i) ==
    /\ fun.fwd[i] = "recv"
    /\ fun.closed[i]
    /\ fun' = [fun EXCEPT !.fwd[i] = "done", !.wg = @ - 1]
    /\ UNCHANGED crawlVars

\* mutant: close(combined) without wg.Wait()
MutCloserNoWait ==
    /\ fun.closes = 0
    /\ fun' = [fun EXCEPT !.closes = @ + 1]
    /\ UNCHANGED crawlVars

\* funnel, lines 26-29: wg.Wait() returns, close(combined)
Closer ==
    /\ fun.wg = 0
    /\ fun.closes = 0
    /\ fun' = [fun EXCEPT !.closes = @ + 1]
    /\ UNCHANGED crawlVars

\* the consumer's range over the output ends when the channel is closed
ConsumerEnds ==
    /\ fun.closes > 0
    /\ fun.consumer = "ranging"
    /\ fun' = [fun EXCEPT !.consumer = "ended"]
    /\ UNCHANGED crawlVars

\* the calls tried: up to MaxInputs channels with up to MaxVals values each
FunnelInit ==
    /\ impl = "conc"
    /\ site = "diamond"
    /\ maxDepth = 0
    /\ visited = {}
    /\ tasks = <<>>
    /\ stack = <<>>
    /\ run = [state |-> "new", tree |-> NilTree, err |-> NoErr]
    /\ hist = [fetched |-> {}, ec |-> {}, granted |-> 0, waited |-> {}, failed |-> {}]
    /\ out = [printed |-> FALSE, lines |-> <<>>]
    /\ \E n \in 0..MaxInputs : \E lens \in [1..n -> 0..MaxVals] : fun = FunnelCall(lens)

FunnelNext ==
    \/ \E i \in Inputs : ProducerSend(i)
    \/ \E i \in Inputs : ProducerClose(i)
    \/ \E i \in Inputs : ForwarderSend(i)
    \/ \E i \in Inputs : ForwarderDone(i)
    \/ Closer
    \/ ConsumerEnds

FunnelSpec == FunnelInit /\ [][FunnelNext]_vars

(***************************************************************************)
(* Reading the state: identities, requests, tree entries and nodes.        *)
(***************************************************************************)
\* the identity of a URL string: the string after its "scheme:" prefix
IdKey(str) == IF Len(str) >= 2 /\ str[2] = ":" THEN SubSeq(str, 3, Len(str)) ELSE str

\* the URL string a tree key is rendered as
KeyStr(k) == IF impl = "seq" THEN String(k.u) ELSE k

\* the host named in an absolute URL string "scheme://host/..."
HostOf(str) == IF Len(str) >= 4 /\ str[3] = "//" THEN str[4] ELSE ""

RootStr == Abs("http", "h", "entry")

RECURSIVE TreeEntries(_, _)
\* every entry of a tree: the URL strings from the top of the tree down to the
\* entry (path), and the entry's sub tree
TreeEntries(tree, above) ==
    UNION {{[path |-> Append(above, KeyStr(k)), sub |-> tree.m[k]]}
           \cup TreeEntries(tree.m[k], Append(above, KeyStr(k))) : k \in DOMAIN tree.m}

RECURSIVE TreeNodes(_, _, _)
\* every non-nil node of the tree of page pageStr, with the page it belongs to
\* and the page's distance from the top of the tree
TreeNodes(pageStr, tree, dist) ==
    IF tree.nil THEN {}
    ELSE {[page |-> pageStr, node |-> tree, dist |-> dist]}
         \cup UNION {TreeNodes(KeyStr(k), tree.m[k], dist + 1) : k \in DOMAIN tree.m}

\* Run has returned a tree and no error
Succeeded == run.state = "done" /\ run.err = NoErr

\* the entries of the tree Run returned
RunEntries == IF run.state = "done" THEN TreeEntries(run.tree, <<>>) ELSE {}

\* the nodes produced so far: those of the tree Run returned and those of the
\* trees returned by the crawl calls of the concurrent crawler
ProducedNodes ==
    (IF run.state = "done" THEN TreeNodes(RootStr, run.tree, 0) ELSE {})
    \cup UNION {TreeNodes(String(tasks[t].u), tasks[t].res.tree, Len(t)) :
                  t \in {x \in DOMAIN tasks : tasks[x].pc \in {"ret", "done"}}}

\* the requests issued for an identity
FetchesOf(id) == {r \in hist.fetched : IdKey(r.url) = id}

\* the hrefs of a page that parse, resolved against the page's URL
PageLinks(pageStr) ==
    LET page == Page(site, Parse(pageStr))
    IN  {String(parseToAbsURL(page[i], Parse(pageStr))) :
           i \in {j \in 1..Len(page) : ~ParseFails(page[j])}}

(***************************************************************************)
(* C1: for every identity key, among all EnsureContains calls made on the  *)
(* visited set in one run, exactly one returns false (was not present);    *)
(* every other call for that key returns true.                             *)
(***************************************************************************)
C1_AdmissionExactlyOnce ==
    \A k \in {e.key : e \in hist.ec} :
        Cardinality({e \in hist.ec : e.key = k /\ ~e.existed}) = 1

\* two goroutines of the concurrent crawler have called EnsureContains for
\* the same key, and the call of the later link won
C1_Witness ==
    /\ impl = "conc"
    /\ \E e1, e2 \in hist.ec :
          /\ e1.key = e2.key
          /\ ~e1.existed /\ e2.existed
          /\ e1.caller = <<2>> /\ e2.caller = <<1, 1>>

(***************************************************************************)
(* C2: each identity key (URL with the scheme erased) is requested at most *)
(* once in a run, whatever the number of pages that link to it.            *)
(***************************************************************************)
C2_FetchedAtMostOnce ==
    \A r1, r2 \in hist.fetched : IdKey(r1.url) = IdKey(r2.url) => r1 = r2

\* a page that two pages link to has been requested, and both links have
\* been through admission
C2_Witness ==
    \E r \in hist.fetched :
        Cardinality({e \in hist.ec : e.key = IdKey(r.url)}) >= 2

(***************************************************************************)
(* C3 as stated: for any configured maxDepth D, no URL at a link distance  *)
(* greater than D from the entrypoint is requested, and every tree entry   *)
(* at such a distance has an absent sub tree.                              *)
(***************************************************************************)
DepthBound ==
    /\ \A r \in hist.fetched : Len(r.task) <= maxDepth
    /\ \A e \in RunEntries : Len(e.path) > maxDepth => e.sub.nil

C3_DepthBoundAnyDepth == DepthBound

\* C3 amended: the same for any configured maxDepth D >= 0
C3_DepthBound == maxDepth >= 0 => DepthBound

\* a run with a depth limit that cuts the crawl: a page beyond distance D is
\* listed and was not requested although it is on the entrypoint's host
C3_Witness ==
    /\ Succeeded
    /\ maxDepth >= 0
    /\ \E e \in RunEntries :
          /\ Len(e.path) > maxDepth
          /\ HostOf(e.path[Len(e.path)]) = Hostname(Root)
          /\ FetchesOf(IdKey(e.path[Len(e.path)])) = {}

(***************************************************************************)
(* C4: a link whose hostname differs from the entrypoint's is never        *)
(* requested, and it is listed as a leaf in the node of the page that      *)
(* links to it.                                                            *)
(***************************************************************************)
C4_HostBound ==
    /\ \A r \in hist.fetched : HostOf(r.url) = Hostname(Root)
    /\ \A n \in ProducedNodes :
          \A l \in PageLinks(n.page) :
              HostOf(l) # Hostname(Root) =>
                  \E k \in DOMAIN n.node.m :
                      IdKey(KeyStr(k)) = IdKey(l) /\ n.node.m[k].nil

\* a run with depth budget left has returned a tree that lists a link to
\* another host
C4_Witness ==
    /\ Succeeded
    /\ maxDepth >= 3
    /\ \E e \in RunEntries :
          /\ HostOf(e.path[Len(e.path)]) # Hostname(Root)
          /\ Len(e.path) = 2

(***************************************************************************)
(* C5: when a crawl call has failed (limiter wait, fetch, parse), Run      *)
(* returns the error of a failed call and a nil tree; a tree is never      *)
(* returned together with or instead of the error.                         *)
(***************************************************************************)
C5_FailFast ==
    run.state = "done" =>
        /\ hist.failed # {} => run.err \in hist.failed
        /\ run.err # NoErr => run.tree.nil

\* the concurrent Run has returned the error of a fetch two links away from
\* the entrypoint
C5_Witness ==
    /\ impl = "conc"
    /\ run.state = "done"
    /\ run.err = Err("fetch", Abs("http", "h", "c"))
    /\ run.tree.nil

(***************************************************************************)
(* C6 as stated: for a fixed site, entrypoint and maxDepth and without     *)
(* failures, the tree returned by the concurrent Run is the same under     *)
(* every interleaving.  The schedule in which every goroutine runs to its  *)
(* end before the next one starts is one of the interleavings, so the      *)
(* claim says that every successful run returns the tree of that schedule. *)
(***************************************************************************)
RECURSIVE DfsCrawl(_, _, _)
RECURSIVE DfsLinks(_, _, _, _, _)
\* the result of crawl(u, depth) of crawler.go under that schedule
DfsCrawl(u, depth, vis) ==
    LET r == LinkSetEnsureContains(vis, urlWithoutScheme(u))
    IN  IF CrawlStops(r.existed, depth, u) THEN [tree |-> NilTree, vis |-> r.set]
        ELSE DfsLinks(findLinksInPage(Page(site, u)), 1, depth, r.set, EmptyTree)

DfsLinks(links, i, depth, vis, tree) ==
    IF i > Len(links) THEN [tree |-> tree, vis |-> vis]
    ELSE LET url == CrawlerParseToAbsURL(links[i])
             c   == DfsCrawl(url, depth + 1, vis)
         IN  DfsLinks(links, i + 1, depth, c.vis, TreePut(tree, String(url), c.tree))

RECURSIVE Shape(_)
\* which URLs are listed under which page and which entries carry a sub tree:
\* a nil sub tree and an empty one are both a leaf
Shape(tree) == [k \in DOMAIN tree.m |-> Shape(tree.m[k])]

DfsShape == Shape(DfsCrawl(CrawlerParseToAbsURL(RootStr), 0, {}).tree)

C6_TreeIndependentOfInterleaving ==
    (impl = "conc" /\ Succeeded) => Shape(run.tree) = DfsShape

\* the tree of the one-goroutine-at-a-time schedule is returned by some run
\* of the site with two paths to /b
C6_SequentialScheduleReached ==
    /\ impl = "conc" /\ Succeeded /\ site = "diamond" /\ maxDepth = 3
    /\ Shape(run.tree) = DfsShape

(***************************************************************************)
(* C7 as stated: the crawl is depth-first in document order: an entry that *)
(* carries a sub tree is the first occurrence of its URL in the depth-     *)
(* first, pre-order traversal of the tree by the pages' link lists; every  *)
(* other occurrence (the entrypoint's included) is a leaf.                 *)
(***************************************************************************)
\* the position of a node's key in the link list of the node's page
KeyPos(pageStr, k) ==
    IF impl = "seq" THEN k.p
    ELSE LET links == findLinksInPage(Page(site, Parse(pageStr)))
             at    == {i \in 1..Len(links) : String(CrawlerParseToAbsURL(links[i])) = k}
         IN  CHOOSE i \in at : \A j \in at : i <= j

RECURSIVE OrderedKeys(_, _)
OrderedKeys(pageStr, keys) ==
    IF keys = {} THEN <<>>
    ELSE LET k == CHOOSE x \in keys : \A y \in keys : KeyPos(pageStr, x) <= KeyPos(pageStr, y)
         IN  <<k>> \o OrderedKeys(pageStr, keys \ {k})

RECURSIVE Preorder(_, _)
RECURSIVE PreorderOf(_, _)
\* the entries of the tree of page pageStr in depth-first pre-order
Preorder(pageStr, tree) == PreorderOf(tree, OrderedKeys(pageStr, DOMAIN tree.m))

PreorderOf(tree, keys) ==
    IF keys = <<>> THEN <<>>
    ELSE LET k == Head(keys)
         IN  <<[id |-> IdKey(KeyStr(k)), carries |-> tree.m[k].m # <<>>]>>
             \o Preorder(KeyStr(k), tree.m[k]) \o PreorderOf(tree, Tail(keys))

C7_DepthFirstDocumentOrder ==
    Succeeded =>
        LET s == Preorder(RootStr, run.tree)
        IN  \A i \in 1..Len(s) :
                s[i].carries =>
                    /\ s[i].id # IdKey(RootStr)
                    /\ \A j \in 1..(i - 1) : s[j].id # s[i].id

(***************************************************************************)
(* C8: in a cyclic link graph the entrypoint is requested exactly once,    *)
(* and a link back to a page that is already visited (the entrypoint or a  *)
(* page on the path that leads to the link) is listed as a leaf.           *)
(***************************************************************************)
\* the entry links back to the entrypoint or to a page above it in the tree
LinksBack(e) ==
    LET n == Len(e.path)
    IN  \/ IdKey(e.path[n]) = IdKey(RootStr)
        \/ \E j \in 1..(n - 1) : IdKey(e.path[j]) = IdKey(e.path[n])

C8_CycleDetected ==
    Succeeded =>
        /\ ~run.tree.nil => Cardinality(FetchesOf(IdKey(RootStr))) = 1
        /\ \A e \in RunEntries : LinksBack(e) => e.sub.nil

\* A -> B -> C -> A with a depth budget that covers the cycle: the link back
\* to the entrypoint is in the tree, three links down
C8_Witness ==
    /\ Succeeded
    /\ site = "cycle"
    /\ \E e \in RunEntries :
          /\ Len(e.path) = 3
          /\ IdKey(e.path[3]) = IdKey(RootStr)
          /\ e.sub.nil

(***************************************************************************)
(* C9 as stated: in every tree node the keys are pairwise identity-        *)
(* distinct: two hrefs of a page that resolve to the same identity key     *)
(* yield exactly one entry in the page's node.                             *)
(***************************************************************************)
C9_NodeKeysIdentityDistinct ==
    \A n \in ProducedNodes :
        /\ \A k1, k2 \in DOMAIN n.node.m :
              IdKey(KeyStr(k1)) = IdKey(KeyStr(k2)) => k1 = k2
        /\ \A l \in PageLinks(n.page) :
              Cardinality({k \in DOMAIN n.node.m : IdKey(KeyStr(k)) = IdKey(l)}) = 1

HasScheme(href) == Len(href) >= 2 /\ href[2] = ":"

FetchedPages == {r.url : r \in hist.fetched}

C11_ResolvedAgainstPage ==
    /\ \A n \in ProducedNodes : \A k \in DOMAIN n.node.m : KeyStr(k) \in PageLinks(n.page)
    /\ \A r \in hist.fetched :
          r.url = RootStr \/ \E p \in FetchedPages : r.url \in PageLinks(p)

(***************************************************************************)
(* C12 as stated: a request answered with a status outside 200..299 is a   *)
(* fetch failure: no node is built from such an answer, and a run that     *)
(* got one does not succeed.                                               *)
(***************************************************************************)
\* the request of the page is answered with a 2xx status
Status2xx(pageStr) == Response(site, Parse(pageStr)).status \in 200..299

C12_NonSuccessStatusFails ==
    /\ \A n \in ProducedNodes : Status2xx(n.page)
    /\ Succeeded => \A p \in FetchedPages : Status2xx(p)

(***************************************************************************)
(* C12 amended: only a failure of the transport (or of the limiter, or of  *)
(* the HTML parser) fails a run; the status of an answer plays no part:    *)
(* the body of a 404 answer is parsed like any other page, and its links   *)
(* are the entries of that page's node.                                    *)
(***************************************************************************)
C12_StatusIgnored ==
    /\ run.state = "done" /\ run.err # NoErr => run.err \in hist.failed
    /\ \A n \in ProducedNodes :
          ~Status2xx(n.page) =>
             {IdKey(KeyStr(k)) : k \in DOMAIN n.node.m} = {IdKey(l) : l \in PageLinks(n.page)}

\* a run succeeded although a request was answered 404, and the links of the
\* 404 body are listed
C12_Witness ==
    /\ Succeeded
    /\ \E n \in TreeNodes(RootStr, run.tree, 0) :
          ~Status2xx(n.page) /\ DOMAIN n.node.m # {}

(***************************************************************************)
(* C13: every request was issued by a crawl call that c.limiter.Wait had   *)
(* returned nil to before, and at every moment the number of requests      *)
(* issued is at most the number of tokens the one limiter has granted.     *)
(***************************************************************************)
C13_FetchAfterLimiter ==
    /\ \A r \in hist.fetched : r.task \in hist.waited
    /\ Cardinality(hist.fetched) <= hist.granted
    /\ Cardinality(hist.waited) = hist.granted

\* two calls for links of one page have both been granted a token and have
\* both issued their request
C13_Witness ==
    \E r1, r2 \in hist.fetched :
        /\ r1.task # r2.task
        /\ r1.task # <<>> /\ r2.task # <<>>
        /\ SubSeq(r1.task, 1, Len(r1.task) - 1) = SubSeq(r2.task, 1, Len(r2.task) - 1)
        /\ hist.granted >= 3

(***************************************************************************)
(* C14: an href that url.Parse rejects fails neither the page nor the run: *)
(* the node of a page with such an href lists every other href of the      *)
(* page, and a run in which nothing else failed succeeds.                  *)
(***************************************************************************)
\* the page has an href that does not parse
HasMalformed(pageStr) ==
    LET page == Page(site, Parse(pageStr))
    IN  \E i \in 1..Len(page) : ParseFails(page[i])

C14_MalformedSkipped ==
    /\ \A n \in ProducedNodes :
          HasMalformed(n.page) =>
             \A l \in PageLinks(n.page) :
                \E k \in DOMAIN n.node.m : IdKey(KeyStr(k)) = IdKey(l)
    /\ run.state = "done" /\ hist.failed = {} => run.err = NoErr

\* a run over a page with a malformed href between two others succeeded, and
\* the page's node lists the two
C14_Witness ==
    /\ Succeeded
    /\ \E n \in TreeNodes(RootStr, run.tree, 0) :
          /\ HasMalformed(n.page)
          /\ Cardinality(PageLinks(n.page)) >= 2
          /\ Cardinality(DOMAIN n.node.m) >= 2
    /\ \E r \in hist.fetched : HasMalformed(r.url) /\ PageLinks(r.url) = {}

(***************************************************************************)
(* C15: in the printed tree the entries of one node come in ascending      *)
(* order of their identity keys (the URL strings without the scheme), at   *)
(* every level, whatever their schemes are.                                *)
(***************************************************************************)
\* the URL string printed on a line
LineUrl(line) ==
    LET t == line.text
        a == IF t[1] = "- " THEN Tail(t) ELSE t
    IN  IF a[Len(a)] = ":" THEN SubSeq(a, 1, Len(a) - 1) ELSE a

\* lines i < j print two entries of one node
SiblingLines(i, j) ==
    /\ i < j
    /\ out.lines[i].indent = out.lines[j].indent
    /\ \A k \in i..j : out.lines[k].indent >= out.lines[i].indent

C15_SiblingsSortedByIdentity ==
    \A i, j \in 1..Len(out.lines) :
        SiblingLines(i, j) =>
           ~StrLess(IdKey(LineUrl(out.lines[j])), IdKey(LineUrl(out.lines[i])))

(***************************************************************************)
(* C16: when Run returns no error, the tree it returns is not nil,         *)
(* whatever maxDepth is configured (0 included).                           *)
(***************************************************************************)
C16_RootTreeNeverNil == Succeeded => ~run.tree.nil

(***************************************************************************)
(* C17: the identity key ignores the scheme and nothing else.  Two URLs    *)
(* have the same key exactly when they differ at most in their scheme; of  *)
(* the calls admitting one key a single one finds it new; two links of a   *)
(* page that differ by a "/" at the end are both listed in the page's node *)
(* and both admitted.                                                      *)
(***************************************************************************)
\* the key the crawler at work computes for a URL string
CodeKey(str) == IF impl = "conc" THEN urlWithoutScheme(Parse(str)) ELSE withoutScheme(Parse(str))

\* the URL strings met so far: the entrypoint and the links of requested pages
SeenUrls == {RootStr} \cup UNION {PageLinks(p) : p \in FetchedPages}

\* two URL strings that differ at most in their scheme
SameButScheme(a, b) == Parse(a).Host = Parse(b).Host /\ Parse(a).Path = Parse(b).Path

C17_IdentityIgnoresSchemeOnly ==
    /\ \A a, b \in SeenUrls : (CodeKey(a) = CodeKey(b)) <=> SameButScheme(a, b)
    /\ \A e1, e2 \in hist.ec : e1.key = e2.key /\ e1 # e2 => e1.existed \/ e2.existed
    /\ \A n \in ProducedNodes : \A a, b \in PageLinks(n.page) :
          a = Append(b, "/") =>
             \A x \in {a, b} :
                /\ \E k \in DOMAIN n.node.m : IdKey(KeyStr(k)) = IdKey(x)
                /\ \E e \in hist.ec : e.key = IdKey(x) /\ ~e.existed

\* /bla was linked under both schemes and requested once, /bla/ was requested
\* as well, and Run returned the tree
C17_Witness ==
    /\ Succeeded
    /\ \E a, b \in SeenUrls : a # b /\ SameButScheme(a, b) /\ Cardinality(FetchesOf(IdKey(a))) = 1
    /\ \E r1, r2 \in hist.fetched : IdKey(r1.url) = Append(IdKey(r2.url), "/")

(***************************************************************************)
(* C18: no goroutine started for a link stays blocked forever.  The only   *)
(* receiver of a funnel's combined channel is the range loop of the        *)
(* parent's collectResults, and a crawl call that has left that loop never *)
(* comes back to it: a forwarder holding a result while the parent is not  *)
(* in the loop can never send it.                                          *)
(***************************************************************************)
C18_NoForwarderBlockedForever ==
    \A t \in DOMAIN tasks :
        t # <<>> /\ tasks[t].fwd = "send" => tasks[Parent(t)].pc = "collect"

(***************************************************************************)
(* C19 (funnel on its own, FunnelSpec): with producers that close their    *)
(* channels and a consumer that keeps receiving, every value sent on an    *)
(* input is delivered once and in the order of its input; the output is    *)
(* closed at most once, only when every input is closed and drained (with  *)
(* no input nothing has to be waited for), nothing is sent on it after     *)
(* the close, and when nothing can move any more it is closed and every    *)
(* value has been delivered.                                               *)
(***************************************************************************)
\* the values of input i that are on their way: held by the forwarder
InFlight(i) == IF fun.fwd[i] = "send" THEN <<fun.res[i]>> ELSE <<>>

C19_Funnel ==
    /\ \A i \in Inputs :
          fun.rcvd[i] \o InFlight(i) \o fun.todo[i] = Values(i, fun.lens[i])
    /\ fun.closes <= 1
    /\ ~fun.late
    /\ fun.closes = 1 =>
          \A i \in Inputs : fun.closed[i] /\ fun.rcvd[i] = Values(i, fun.lens[i])
    /\ Inputs = {} => fun.wg = 0
    /\ ~ENABLED FunnelNext => fun.closes = 1 /\ fun.consumer = "ended"

\* two inputs with two values each: all four delivered, the output closed
C19_Witness ==
    /\ Cardinality(Inputs) >= 2
    /\ \A i \in Inputs : fun.lens[i] >= 2 /\ Len(fun.rcvd[i]) = fun.lens[i]
    /\ fun.closes = 1
    /\ fun.consumer = "ended"

(***************************************************************************)
(* C20: a crawl call of crawler.go that returns a tree built by            *)
(* collectResults has received the result of every goroutine it started:   *)
(* at that moment each child has sent its result and ended, its forwarder  *)
(* has passed the result on, and the node holds, under the child's link,   *)
(* the tree that child returned.                                           *)
(***************************************************************************)
\* the crawl calls that have returned a non-nil tree and no error
ReturnedTree == {p \in DOMAIN tasks : /\ tasks[p].pc \in {"ret", "done"}
                                       /\ tasks[p].res.err = NoErr
                                       /\ ~tasks[p].res.tree.nil}

\* the part of C20 about time alone: no child of a returned call is still
\* running or still has its result on the way
C20_ChildrenEnded ==
    \A p \in ReturnedTree : \A k \in Children(p) :
        tasks[k].pc = "done" /\ tasks[k].fwd = "done"

C20_ReturnsAfterAllChildren ==
    /\ C20_ChildrenEnded
    /\ \A p \in ReturnedTree : \A k \in Children(p) :
          /\ tasks[k].res.link \in DOMAIN tasks[p].res.tree.m
          /\ tasks[p].res.tree.m[tasks[k].res.link] = tasks[k].res.tree

(***************************************************************************)
(* C21: on a successful run the node of every requested page has exactly   *)
(* one entry for each identity among the links of the page, expanded or    *)
(* not: a link that was already visited, at the depth limit or on another  *)
(* host is listed as a leaf.                                               *)
(***************************************************************************)
\* the identities of the links of a page
LinkIds(pageStr) == {IdKey(l) : l \in PageLinks(pageStr)}

\* the nodes of the tree Run returned
RunNodes == IF run.state = "done" THEN TreeNodes(RootStr, run.tree, 0) ELSE {}

C21_EveryLinkListedOnce ==
    Succeeded =>
       \A n \in RunNodes :
          /\ {IdKey(KeyStr(k)) : k \in DOMAIN n.node.m} = LinkIds(n.page)
          /\ Cardinality(DOMAIN n.node.m) = Cardinality(LinkIds(n.page))

(***************************************************************************)
(* C22: once a branch of the crawl has failed, the run is cancelled: from  *)
(* then on no crawl call is granted a token by the limiter and no crawl    *)
(* call issues a request.                                                  *)
(***************************************************************************)
\* some crawl call has returned an error
BranchFailed ==
    \/ \E t \in DOMAIN tasks : tasks[t].pc \in {"ret", "done"} /\ tasks[t].res.err # NoErr
    \/ \E i \in 1..Len(stack) : stack[i].pc = "failed"
    \/ run.state = "done" /\ run.err # NoErr

C22_CancelledAfterFailure ==
    [][BranchFailed => hist'.granted = hist.granted /\ hist'.fetched = hist.fetched]_vars

(***************************************************************************)
(* C23: on a successful run, every requested page other than the           *)
(* entrypoint that has links is found in the returned tree with its        *)
(* sub tree, at exactly one entry: the sub tree built by the call that     *)
(* requested the page is not lost.                                         *)
(***************************************************************************)
\* the entries of the returned tree for the identity of a URL string that
\* carry a sub tree with entries
ExpandedEntries(str) ==
    {e \in RunEntries : /\ IdKey(e.path[Len(e.path)]) = IdKey(str)
                        /\ DOMAIN e.sub.m # {}}

C23_SubtreeKeptOnce ==
    Succeeded =>
       \A r \in hist.fetched :
          r.url # RootStr /\ PageLinks(r.url) # {} =>
             Cardinality(ExpandedEntries(r.url)) = 1

(***************************************************************************)
(* C24: on a successful run with maxDepth D >= 1, every URL on the         *)
(* entrypoint's host at a shortest link distance below D from the          *)
(* entrypoint has been requested.                                          *)
(***************************************************************************)
RECURSIVE Within(_)
\* the URL strings at a link distance of at most d from the entrypoint, links
\* being followed from the pages of the entrypoint's host
Within(d) ==
    IF d = 0 THEN {RootStr}
    ELSE LET near == Within(d - 1)
         IN  near \cup UNION {PageLinks(p) : p \in {q \in near : HostOf(q) = HostOf(RootStr)}}

C24_ShortestDistanceFetched ==
    Succeeded /\ maxDepth >= 1 =>
       \A u \in Within(maxDepth - 1) :
          HostOf(u) = HostOf(RootStr) => FetchesOf(IdKey(u)) # {}

(***************************************************************************)
(* C25 (FairSpec): on every site, cycles included, and for every           *)
(* maxDepth, when no step that can be taken is put off forever (requests   *)
(* are answered, waiters are granted), Run returns a tree or an error.     *)
(***************************************************************************)
C25_RunReturns == <>(run.state = "done")

\* Run has returned from a crawl over a site whose pages link back to the
\* entrypoint
C25_Witness ==
    /\ run.state = "done"
    /\ \E e \in RunEntries : Len(e.path) > 1 /\ IdKey(e.path[Len(e.path)]) = IdKey(RootStr)

====
